---- MODULE Spec2Model ----
(***************************************************************************)
(* A model of rrg.py: calculate (the rolling normalisation of the relative *)
(* strength ratio and of its momentum) and build_frames (the sliding tail  *)
(* windows handed to the animation, with their slider steps).              *)
(*                                                                         *)
(* A table is a function from column name to a sequence of cells; row r of *)
(* the code (0-based) is element r + 1 of the sequence.  start, end and i  *)
(* keep the code's 0-based values.                                         *)
(***************************************************************************)
EXTENDS Integers, Sequences, FiniteSets

VARIABLES
    index,          \* rs_data.index: the timestamps of the rows, in ticks
    tickers_list,   \* rs_data.columns, in column order
    rs_data,        \* build_frames: column -> sequence of x values
    rsm_data,       \* build_frames: column -> sequence of y values
    tail_points,    \* build_frames parameter
    total_frames,   \* build_frames parameter
    pc,             \* position in the call: "start", "loop", "done" in
                    \* build_frames, "calc", "calculated" in calculate
    i,              \* the loop variable of line 53
    frames,         \* the list frames
    slider_steps,   \* the list slider_steps
    windows,        \* history: <<i, start, end>> of every frame appended
    skipped,        \* history: how often line 61 (continue) ran
    benchmark_series, \* calculate: sequence of benchmark prices
    tickers_df,     \* calculate: column -> sequence of prices
    window,         \* calculate parameter
    fill_method,    \* the default fill_method of pct_change in the pandas at hand
    flat_roc,       \* rows at which the rolling spread of roc is zero
    rs_normalized,  \* calculate result: column -> sequence of cells
    rs_momentum     \* calculate result: column -> sequence of cells

vars == <<index, tickers_list, rs_data, rsm_data, tail_points, total_frames,
          pc, i, frames, slider_steps, windows, skipped,
          benchmark_series, tickers_df, window, fill_method, flat_roc,
          rs_normalized, rs_momentum>>

buildVars == <<index, tickers_list, rs_data, rsm_data, tail_points, total_frames,
               i, frames, slider_steps, windows, skipped>>

calcVars == <<benchmark_series, tickers_df, window, fill_method, flat_roc,
              rs_normalized, rs_momentum>>

----------------------------------------------------------------------------
(* Bounds of the model *)

MaxLen == 4         \* rows of the tables given to build_frames
MaxTail == 3        \* largest tail_points
MaxFrames == 4      \* largest total_frames
TicksPerDay == 2    \* timestamps per calendar date
MaxVal == 2         \* largest x or y value in the direction runs
ArrowLen == 3       \* rows of the tables in the direction runs

----------------------------------------------------------------------------
(* Helpers for Python lists *)

Repeat(v, n) == [k \in 1..n |-> v]

Slice(s, start, end) == SubSeq(s, start + 1, end)

Range(s) == {s[k] : k \in 1..Len(s)}

Last(s) == s[Len(s)]

Abs(v) == IF v < 0 THEN 0 - v ELSE v

----------------------------------------------------------------------------
(* The time index *)

\* index.strftime("%Y-%m-%d"): the calendar date of a timestamp, the time of
\* day dropped.
strftime(ts) == ts \div TicksPerDay

\* The strictly increasing indexes of n rows that start at tick 0 and step by
\* a gap of Gaps from row to row.
RECURSIVE IndexesOf(_, _)
IndexesOf(n, Gaps) ==
    IF n = 0 THEN {<<>>}
    ELSE IF n = 1 THEN {<<0>>}
    ELSE {Append(s, Last(s) + g) : s \in IndexesOf(n - 1, Gaps), g \in Gaps}

----------------------------------------------------------------------------
(* build_frames *)

NoneLabel == "None"

SingleKey == <<"SingleFrame">>

\* a changed FrameKey: the key names the start date twice
FrameKeyStartOnly(start_date, end_date) == <<start_date, "-", start_date>>

\* line 65: f"{start_date} - {end_date}"
FrameKey(start_date, end_date) == <<start_date, "-", end_date>>

Scatter(t, x, y, txt, symbol, size) ==
    [name |-> t, x |-> x, y |-> y, text |-> txt, symbol |-> symbol, size |-> size]

CircleSize == 8
ArrowSize == 14

\* line 36 and line 71
LabelsFor(x, t) == Repeat(NoneLabel, Len(x) - 1) \o <<t>>

\* lines 34-47
SingleTrace(t) ==
    LET x == rs_data[t]
        y == rsm_data[t]
    IN Scatter(t, x, y, LabelsFor(x, t), <<"triangle-up">>, <<ArrowSize>>)

\* a changed ArrowSymbol: a tie |dx| = |dy| takes the horizontal branch
ArrowSymbolTieHorizontal(x, y) ==
    IF Len(x) > 1
    THEN LET dx == x[Len(x)] - x[Len(x) - 1]
             dy == y[Len(y)] - y[Len(y) - 1]
         IN IF Abs(dx) >= Abs(dy)
            THEN (IF dx > 0 THEN "triangle-right" ELSE "triangle-left")
            ELSE (IF dy > 0 THEN "triangle-up" ELSE "triangle-down")
    ELSE "triangle-up"

\* lines 73-82
ArrowSymbol(x, y) ==
    IF Len(x) > 1
    THEN LET dx == x[Len(x)] - x[Len(x) - 1]
             dy == y[Len(y)] - y[Len(y) - 1]
         IN IF Abs(dx) > Abs(dy)
            THEN (IF dx > 0 THEN "triangle-right" ELSE "triangle-left")
            ELSE (IF dy > 0 THEN "triangle-up" ELSE "triangle-down")
    ELSE "triangle-up"

\* lines 68-98
WindowTrace(t, start, end) ==
    LET x == Slice(rs_data[t], start, end)
        y == Slice(rsm_data[t], start, end)
    IN Scatter(t, x, y, LabelsFor(x, t),
               Repeat("circle", Len(x) - 1) \o <<ArrowSymbol(x, y)>>,
               Repeat(CircleSize, Len(x) - 1) \o <<ArrowSize>>)

\* a changed WindowStart: the window starts one row early
WindowStartOneEarly(n, k) ==
    LET start == Len(index) - n - k - 1
    IN IF start < 0 THEN 0 ELSE start

\* a changed WindowStart: the size of the tail is taken without its sign
WindowStartAbs(n, k) ==
    LET start == Len(index) - Abs(n) - k
    IN IF start < 0 THEN 0 ELSE start

\* lines 54, 56-57: start after the clamp
WindowStart(n, k) ==
    LET start == Len(index) - n - k
    IN IF start < 0 THEN 0 ELSE start

\* a changed WindowEnd: end is taken from the clamped start
WindowEndFromClamped(n, k) ==
    LET end == WindowStart(n, k) + n
    IN IF end > Len(index) THEN Len(index) ELSE end

\* lines 54-55, 58-59: end after the clamp; line 55 reads start before line
\* 57 clamps it
WindowEnd(n, k) ==
    LET end == (Len(index) - n - k) + n
    IN IF end > Len(index) THEN Len(index) ELSE end

\* a changed IsDegenerate: only the empty table takes the single-frame path
IsDegenerateEmptyOnly == Len(index) < 1

\* line 31
IsDegenerate == Len(index) < 2

\* lines 31-50
Degenerate ==
    /\ pc = "start"
    /\ IsDegenerate
    /\ frames' = Append(frames,
                        [name |-> SingleKey,
                         data |-> [c \in 1..Len(tickers_list) |->
                                      SingleTrace(tickers_list[c])]])
    /\ slider_steps' = Append(slider_steps,
                              [args |-> SingleKey, label |-> SingleKey,
                               method |-> "animate"])
    /\ pc' = "done"
    /\ UNCHANGED <<index, tickers_list, rs_data, rsm_data, tail_points,
                   total_frames, i, windows, skipped>>
    /\ UNCHANGED calcVars

\* a changed EnterLoop: the range starts one offset late
EnterLoopOneShort ==
    /\ pc = "start"
    /\ ~IsDegenerate
    /\ i' = total_frames - 1
    /\ pc' = "loop"
    /\ UNCHANGED <<index, tickers_list, rs_data, rsm_data, tail_points,
                   total_frames, frames, slider_steps, windows, skipped>>
    /\ UNCHANGED calcVars

\* lines 31, 52-53: the loop is entered
EnterLoop ==
    /\ pc = "start"
    /\ ~IsDegenerate
    /\ i' = total_frames
    /\ pc' = "loop"
    /\ UNCHANGED <<index, tickers_list, rs_data, rsm_data, tail_points,
                   total_frames, frames, slider_steps, windows, skipped>>
    /\ UNCHANGED calcVars

\* lines 54-61: an iteration that ends at continue
SkipOffset ==
    /\ pc = "loop"
    /\ i >= 0
    /\ WindowEnd(tail_points, i) - WindowStart(tail_points, i) < 1
    /\ skipped' = skipped + 1
    /\ i' = i - 1
    /\ UNCHANGED <<index, tickers_list, rs_data, rsm_data, tail_points,
                   total_frames, frames, slider_steps, windows, pc>>
    /\ UNCHANGED calcVars

\* a changed EmitFrame: the frame is appended and its step is not
EmitFrameWithoutStep ==
    /\ pc = "loop"
    /\ i >= 0
    /\ LET start == WindowStart(tail_points, i)
           end == WindowEnd(tail_points, i)
       IN /\ ~(end - start < 1)
          /\ frames' = Append(frames,
                 [name |-> FrameKey(strftime(index[start + 1]), strftime(index[end])),
                  data |-> [c \in 1..Len(tickers_list) |->
                               WindowTrace(tickers_list[c], start, end)]])
          /\ windows' = Append(windows, <<i, start, end>>)
    /\ i' = i - 1
    /\ UNCHANGED <<index, tickers_list, rs_data, rsm_data, tail_points,
                   total_frames, skipped, pc, slider_steps>>
    /\ UNCHANGED calcVars

\* lines 54-108: an iteration that appends a frame and its step
EmitFrame ==
    /\ pc = "loop"
    /\ i >= 0
    /\ LET start == WindowStart(tail_points, i)
           end == WindowEnd(tail_points, i)
       IN /\ ~(end - start < 1)
          /\ LET key == FrameKey(strftime(index[start + 1]), strftime(index[end]))
             IN /\ frames' = Append(frames,
                                    [name |-> key,
                                     data |-> [c \in 1..Len(tickers_list) |->
                                         WindowTrace(tickers_list[c], start, end)]])
                /\ slider_steps' = Append(slider_steps,
                                          [args |-> key, label |-> key,
                                           method |-> "animate"])
          /\ windows' = Append(windows, <<i, start, end>>)
    /\ i' = i - 1
    /\ UNCHANGED <<index, tickers_list, rs_data, rsm_data, tail_points,
                   total_frames, skipped, pc>>
    /\ UNCHANGED calcVars

\* line 53 exhausted, line 110
ReturnFrames ==
    /\ pc = "loop"
    /\ i < 0
    /\ pc' = "done"
    /\ UNCHANGED buildVars
    /\ UNCHANGED calcVars

NextBuild == Degenerate \/ EnterLoop \/ SkipOffset \/ EmitFrame \/ ReturnFrames

----------------------------------------------------------------------------
(* calculate *)

(* A price is a natural number.  A cell of rs is "nan", "inf" or the exact  *)
(* quotient <<p, b>>.  A cell of a result table is "num" or "nan": the      *)
(* floating-point value itself is not kept, only whether pandas has one.    *)

Periods == 5

\* line 12: tickers_df.div(benchmark_series, axis=0), one cell
Div(p, b) ==
    IF b = 0 THEN (IF p = 0 THEN "nan" ELSE "inf") ELSE <<p, b>>

IsFinite(c) == c # "nan" /\ c # "inf"

SameRatio(c, d) == c[1] * d[2] = d[1] * c[2]

\* rolling(window): the rows of the window that ends at row t (1-based)
RollingRows(w, t) == {r \in 1..t : r > t - w}

\* a changed RollingDefined: one value in the window is enough (min_periods=1)
RollingDefinedFromFirstRow(col, w, t) ==
    /\ t >= 1
    /\ \A r \in RollingRows(w, t) : IsFinite(col[r])

\* rolling(window).mean() and .std(ddof=0) have a value at row t: the window
\* is full (min_periods = window) and holds no nan; an inf counts as nan.
RollingDefined(col, w, t) ==
    /\ t >= w
    /\ \A r \in RollingRows(w, t) : IsFinite(col[r])

\* the population standard deviation of the window is 0
ZeroStd(col, w, t) ==
    \A r \in RollingRows(w, t) : SameRatio(col[r], col[t])

\* lines 13-15: 100 + (rs - rs_mean) / rs_std, one column
Normalize(col, w) ==
    [t \in 1..Len(col) |->
        IF RollingDefined(col, w, t) /\ ~ZeroStd(col, w, t) THEN "num" ELSE "nan"]

\* pct_change with fill_method "pad" forward-fills the column first: a row has
\* a value when some row up to it has one.
Filled(col, fm) ==
    [t \in 1..Len(col) |->
        IF fm = "pad"
        THEN (IF \E r \in 1..t : col[r] = "num" THEN "num" ELSE "nan")
        ELSE col[t]]

\* line 17: pct_change(periods=5) * 100, one column
PctChange(col, fm) ==
    LET data == Filled(col, fm)
    IN [t \in 1..Len(col) |->
           IF t > Periods /\ data[t] = "num" /\ data[t - Periods] = "num"
           THEN "num" ELSE "nan"]

\* the rows at which roc.rolling(window) has a full window of values
RocWindowRows(roc, w) ==
    {t \in 1..Len(roc) : t >= w /\ \A r \in RollingRows(w, t) : roc[r] = "num"}

\* line 18: 101 + (roc - roc mean) / roc std, one column.  flat holds the rows
\* at which the rolling spread of roc is 0; a window of one row is always flat.
Momentum(roc, w, flat) ==
    [t \in 1..Len(roc) |->
        IF t \in RocWindowRows(roc, w) /\ w > 1 /\ t \notin flat
        THEN "num" ELSE "nan"]

Columns(df) == DOMAIN df

\* lines 12-19
Calculate ==
    /\ pc = "calc"
    /\ LET rs == [t \in Columns(tickers_df) |->
                    [r \in 1..Len(tickers_df[t]) |->
                        Div(tickers_df[t][r], benchmark_series[r])]]
           norm == [t \in Columns(tickers_df) |-> Normalize(rs[t], window)]
           roc == [t \in Columns(tickers_df) |-> PctChange(norm[t], fill_method)]
       IN \E flat \in SUBSET UNION {RocWindowRows(roc[t], window) :
                                       t \in Columns(tickers_df)} :
             /\ flat_roc' = flat
             /\ rs_normalized' = norm
             /\ rs_momentum' = [t \in Columns(tickers_df) |->
                                   Momentum(roc[t], window, flat)]
    /\ pc' = "calculated"
    /\ UNCHANGED buildVars
    /\ UNCHANGED <<benchmark_series, tickers_df, window, fill_method>>

----------------------------------------------------------------------------
(* Specifications *)

ColumnLists == {<<>>, <<"A">>, <<"A", "B">>}

NoCalc ==
    /\ benchmark_series = <<>>
    /\ tickers_df = <<>>
    /\ window = 1
    /\ fill_method = "pad"
    /\ flat_roc = {}
    /\ rs_normalized = <<>>
    /\ rs_momentum = <<>>

\* One call of build_frames: tables of n rows for n in Lens, cells from Vals.
InitBuild(Lens, Gaps, Tails, Counts, Lists, Vals) ==
    /\ \E n \in Lens :
          /\ index \in IndexesOf(n, Gaps)
          /\ tickers_list \in Lists
          /\ rs_data \in [Range(tickers_list) -> [1..n -> Vals]]
          /\ rsm_data \in [Range(tickers_list) -> [1..n -> Vals]]
    /\ tail_points \in Tails
    /\ total_frames \in Counts
    /\ pc = "start"
    /\ i = 0
    /\ frames = <<>>
    /\ slider_steps = <<>>
    /\ windows = <<>>
    /\ skipped = 0
    /\ NoCalc

\* Windowing: every short table, tail and frame count, rows of one date or
\* of different dates, and the scenario of 20 daily rows; constant cells.
ScenarioLens == {20}

Init ==
    \/ InitBuild(0..MaxLen, 1..TicksPerDay, (0 - 1)..MaxTail, 0..MaxFrames,
                 ColumnLists, {0})
    \/ InitBuild(ScenarioLens, {TicksPerDay}, 1..MaxTail, 0..MaxFrames,
                 {<<"A", "B">>}, {0})

Next == NextBuild

Spec == Init /\ [][Next]_vars

\* Direction of the arrow: short tables of one instrument, every combination
\* of cells, every tail up to the table, one window or more windows than rows.
InitArrow ==
    InitBuild(1..ArrowLen, {TicksPerDay}, 1..ArrowLen, {0, ArrowLen - 1},
              {<<"A">>}, 0..MaxVal)

NextArrow == NextBuild

SpecArrow == InitArrow /\ [][NextArrow]_vars

\* calculate on one column of prices.
MaxRows == 8
MaxWindow == 3
Prices == {1, 2}

\* The benchmark is 1 but in at most one row, where it is 0 or 2.
BenchmarksOf(n) ==
    {[r \in 1..n |-> IF r = z THEN b ELSE 1] : z \in 0..n, b \in {0, 2}}

InitCalc ==
    /\ \E n \in 0..MaxRows :
          /\ benchmark_series \in BenchmarksOf(n)
          /\ tickers_df \in [{"A"} -> [1..n -> Prices]]
    /\ window \in 1..MaxWindow
    /\ fill_method \in {"pad", "None"}
    /\ flat_roc = {}
    /\ rs_normalized = <<>>
    /\ rs_momentum = <<>>
    /\ pc = "calc"
    /\ index = <<>>
    /\ tickers_list = <<>>
    /\ rs_data = <<>>
    /\ rsm_data = <<>>
    /\ tail_points = 1
    /\ total_frames = 0
    /\ i = 0
    /\ frames = <<>>
    /\ slider_steps = <<>>
    /\ windows = <<>>
    /\ skipped = 0

NextCalc == Calculate

SpecCalc == InitCalc /\ [][NextCalc]_vars

----------------------------------------------------------------------------
(* Vocabulary of the properties *)

Max(a, b) == IF a > b THEN a ELSE b

Min(a, b) == IF a < b THEN a ELSE b

NumRows == Len(index)

\* the call took the general path (lines 52-110) and k has been iterated
Iterated(k) ==
    /\ NumRows >= 2
    /\ pc \in {"loop", "done"}
    /\ k \in 0..total_frames
    /\ k > i

HasFrame(k) == \E f \in 1..Len(windows) : windows[f][1] = k

DistinctDates ==
    \A a, b \in 1..NumRows : a # b => strftime(index[a]) # strftime(index[b])

Arrows == {"triangle-up", "triangle-down", "triangle-left", "triangle-right"}

----------------------------------------------------------------------------
(* C1 *)

\* C1 as stated: every frame appended for an offset k covers the rows
\* [start, end) with start = max(0, len - tail - k) and end = min(len, start +
\* tail), end taken from the clamped start.
C1_EndFromClampedStart ==
    tail_points >= 1 =>
        \A f \in 1..Len(windows) :
            LET k == windows[f][1]
                start == Max(0, NumRows - tail_points - k)
            IN /\ windows[f][2] = start
               /\ windows[f][3] = Min(NumRows, start + tail_points)

\* C1 amended: the frame of offset k covers [start, end) with start = max(0,
\* len - tail - k) and end = min(len, (len - tail - k) + tail) = len - k, end
\* taken from the start before it is clamped; an iterated offset has no frame
\* exactly when end - start < 1 for these values, that is when k >= len.
C1_EndFromRawStart ==
    tail_points >= 1 =>
        /\ \A f \in 1..Len(windows) :
              LET k == windows[f][1]
              IN /\ windows[f][2] = Max(0, NumRows - tail_points - k)
                 /\ windows[f][3] = NumRows - k
                 /\ Len(frames[f].data) = Len(tickers_list)
                 /\ \A c \in 1..Len(tickers_list) :
                       frames[f].data[c].x =
                           SubSeq(rs_data[tickers_list[c]],
                                  windows[f][2] + 1, windows[f][3])
        /\ \A k \in 0..total_frames :
              Iterated(k) =>
                  /\ ~HasFrame(k) <=>
                         (NumRows - k) - Max(0, NumRows - tail_points - k) < 1
                  /\ ~HasFrame(k) <=> k >= NumRows

\* a finished call that skipped an offset and appended a frame whose start
\* was clamped to 0
C1_Witness ==
    /\ pc = "done"
    /\ tail_points >= 1
    /\ skipped > 0
    /\ \E f \in 1..Len(windows) :
          /\ NumRows - tail_points - windows[f][1] < 0
          /\ windows[f][3] - windows[f][2] < tail_points

----------------------------------------------------------------------------
(* C2 *)

\* C2: when the rows have pairwise distinct calendar dates and tail >= 1, the
\* frame keys of one call are pairwise distinct, the last row of the window
\* never decreases along the list, and the k-th step carries the k-th key.
C2_KeysDistinctAndOrdered ==
    (DistinctDates /\ tail_points >= 1) =>
        /\ \A a, b \in 1..Len(frames) :
              a # b => frames[a].name # frames[b].name
        /\ \A a, b \in 1..Len(windows) :
              a < b => windows[a][3] <= windows[b][3]
        /\ Len(slider_steps) = Len(frames)
        /\ \A k \in 1..Len(frames) :
              /\ slider_steps[k].label = frames[k].name
              /\ slider_steps[k].args = frames[k].name

\* a finished call on distinct dates with three frames, two of them clamped
\* to the same first row
C2_Witness ==
    /\ pc = "done"
    /\ DistinctDates
    /\ tail_points >= 1
    /\ Len(frames) >= 3
    /\ \E a, b \in 1..Len(windows) : a # b /\ windows[a][2] = windows[b][2]

----------------------------------------------------------------------------
(* C3 *)

\* C3: the steps are always as many as the frames (a frame and its step are
\* appended together), and a call on 2 or more rows returns total_frames + 1
\* frames less the skipped offsets.
C3_FrameAndStepCounts ==
    /\ Len(slider_steps) = Len(frames)
    /\ (NumRows >= 2 /\ pc = "loop") =>
           Len(frames) + skipped = total_frames - i
    /\ (NumRows >= 2 /\ pc = "done") =>
           Len(frames) = (total_frames + 1) - skipped

\* a finished call that both skipped offsets and appended frames
C3_Witness ==
    /\ pc = "done"
    /\ NumRows >= 2
    /\ skipped >= 2
    /\ Len(frames) >= 2

----------------------------------------------------------------------------
(* C4 *)

\* C4 as stated: in every returned frame every instrument has the same
\* number of points, at least 1 and at most tail.
C4_AtLeastOnePoint ==
    tail_points >= 1 =>
        \A f \in 1..Len(frames) :
            \A c, d \in 1..Len(frames[f].data) :
                /\ Len(frames[f].data[c].x) = Len(frames[f].data[d].x)
                /\ Len(frames[f].data[c].y) = Len(frames[f].data[c].x)
                /\ Len(frames[f].data[c].x) >= 1
                /\ Len(frames[f].data[c].x) <= tail_points

\* C4 amended: with tail >= 1, in every returned frame every instrument has
\* the same number of points, at most tail; that number is at least 1 unless
\* the tables have 0 rows, where the single frame holds 0 points.
C4_PointCounts ==
    tail_points >= 1 =>
        \A f \in 1..Len(frames) :
            /\ Len(frames[f].data) = Len(tickers_list)
            /\ \A c, d \in 1..Len(frames[f].data) :
                  /\ Len(frames[f].data[c].x) = Len(frames[f].data[d].x)
                  /\ Len(frames[f].data[c].y) = Len(frames[f].data[c].x)
                  /\ Len(frames[f].data[c].x) <= tail_points
                  /\ NumRows >= 1 => Len(frames[f].data[c].x) >= 1
                  /\ NumRows = 0 => Len(frames[f].data[c].x) = 0

\* the frame returned for tables of 0 rows and two instruments
C4_Witness ==
    /\ pc = "done"
    /\ tail_points >= 1
    /\ NumRows = 0
    /\ Len(frames) = 1
    /\ Len(frames[1].data) = 2
    /\ frames[1].data[1].x = <<>>

----------------------------------------------------------------------------
(* C5 *)

\* the marker the claim gives to a window whose last two points are
\* (x2, y2) then (x1, y1)
ClaimedArrow(x2, y2, x1, y1) ==
    LET dx == x1 - x2
        dy == y1 - y2
    IN CASE Abs(dx) > Abs(dy) /\ dx > 0 -> "triangle-right"
         [] Abs(dx) > Abs(dy) /\ dx <= 0 -> "triangle-left"
         [] Abs(dx) <= Abs(dy) /\ dy > 0 -> "triangle-up"
         [] Abs(dx) <= Abs(dy) /\ dy <= 0 -> "triangle-down"

\* C5: the marker of the last point of an instrument in a frame follows from
\* the last two rows of its window alone (right, left, up, down as the claim
\* orders them, a tie |dx| = |dy| taking the vertical branch), and a window
\* of fewer than 2 rows has the marker up.
C5_ArrowFromLastTwoPoints ==
    /\ \A f \in 1..Len(windows) :
          \A c \in 1..Len(tickers_list) :
              LET t == tickers_list[c]
                  start == windows[f][2]
                  end == windows[f][3]
                  symbol == frames[f].data[c].symbol
              IN symbol[Len(symbol)] =
                     IF end - start < 2 THEN "triangle-up"
                     ELSE ClaimedArrow(rs_data[t][end - 1], rsm_data[t][end - 1],
                                       rs_data[t][end], rsm_data[t][end])
    /\ (NumRows < 2 /\ pc = "done") =>
           \A c \in 1..Len(tickers_list) :
               frames[1].data[c].symbol = <<"triangle-up">>

\* a frame of three points whose last step is the tie (0,0) -> (2,2), marked up
C5_Witness ==
    \E f \in 1..Len(windows) :
        LET tr == frames[f].data[1]
        IN /\ Len(tr.x) = 3
           /\ tr.x[2] = 0 /\ tr.y[2] = 0
           /\ tr.x[3] = 2 /\ tr.y[3] = 2
           /\ tr.symbol[3] = "triangle-up"

----------------------------------------------------------------------------
(* C6 *)

\* C6: on tables of fewer than 2 rows the call returns one frame and one step
\* with that frame's key, whatever tail and frame count are; the frame holds
\* every row of every instrument with the marker up; the loop is never run.
C6_SingleFrame ==
    NumRows < 2 =>
        /\ pc # "loop"
        /\ skipped = 0
        /\ windows = <<>>
        /\ pc = "done" =>
              /\ Len(frames) = 1
              /\ Len(slider_steps) = 1
              /\ slider_steps[1].label = frames[1].name
              /\ slider_steps[1].args = frames[1].name
              /\ frames[1].name = <<"SingleFrame">>
              /\ Len(frames[1].data) = Len(tickers_list)
              /\ \A c \in 1..Len(tickers_list) :
                    /\ frames[1].data[c].name = tickers_list[c]
                    /\ frames[1].data[c].x = rs_data[tickers_list[c]]
                    /\ frames[1].data[c].y = rsm_data[tickers_list[c]]
                    /\ frames[1].data[c].symbol = <<"triangle-up">>

\* the frame returned for tables of 1 row and two instruments, with a tail
\* and a frame count that would give several windows
C6_Witness ==
    /\ pc = "done"
    /\ NumRows = 1
    /\ tail_points = 3
    /\ total_frames = 4
    /\ Len(frames) = 1
    /\ Len(frames[1].data) = 2
    /\ Len(frames[1].data[2].x) = 1

----------------------------------------------------------------------------
(* C7 *)

\* C7: in every frame and for every instrument the labels, the marker shapes
\* and the marker sizes have as many entries as there are points; every label
\* but the last is empty and the last is the instrument; every marker but the
\* last is the trail circle and the last is an arrow.
C7_ParallelSequences ==
    \A f \in 1..Len(frames) :
        \A c \in 1..Len(frames[f].data) :
            LET tr == frames[f].data[c]
                n == Len(tr.x)
            IN /\ Len(tr.y) = n
               /\ Len(tr.text) = n
               /\ Len(tr.symbol) = n
               /\ Len(tr.size) = n
               /\ \A k \in 1..n :
                     /\ tr.text[k] = (IF k = n THEN tr.name ELSE NoneLabel)
                     /\ k < n => tr.symbol[k] = "circle"
                     /\ k = n => tr.symbol[k] \in Arrows

----------------------------------------------------------------------------
(* C8 *)

\* C8 as stated: a call with tail <= 0 ends in a contract error, so it never
\* returns a frame list and a step list.
C8_NoResultForNonPositiveTail ==
    tail_points <= 0 => pc # "done"

\* C8 amended: a call with tail <= 0 is not rejected.  It runs to its return:
\* on 2 or more rows every offset is skipped and both lists are returned empty;
\* on fewer than 2 rows the single frame and its step are returned.
C8_NonPositiveTailReturns ==
    tail_points <= 0 =>
        /\ pc # "done" => ENABLED NextBuild
        /\ NumRows >= 2 => (frames = <<>> /\ slider_steps = <<>>)
        /\ (NumRows >= 2 /\ pc = "done") => skipped = total_frames + 1
        /\ (NumRows < 2 /\ pc = "done") =>
               (Len(frames) = 1 /\ Len(slider_steps) = 1)

\* a call with tail -1 on 3 rows that has returned the two empty lists
C8_Witness ==
    /\ pc = "done"
    /\ tail_points < 0
    /\ NumRows = 3
    /\ total_frames = 2
    /\ frames = <<>>
    /\ slider_steps = <<>>

----------------------------------------------------------------------------
(* C9 *)

\* C9: with 2 or more rows, tail >= 1 and len - tail - total_frames >= 0 no
\* offset is skipped: total_frames + 1 frames are returned, each of exactly
\* tail points per instrument, the last one over the last tail rows; so 20
\* rows, tail 3 and 4 frames give 5 frames, the last over rows 17..19.
C9_NoOffsetSkipped ==
    (/\ NumRows >= 2
     /\ tail_points >= 1
     /\ NumRows - tail_points - total_frames >= 0) =>
        /\ skipped = 0
        /\ \A f \in 1..Len(frames) :
              \A c \in 1..Len(frames[f].data) :
                  Len(frames[f].data[c].x) = tail_points
        /\ pc = "done" =>
              /\ Len(frames) = total_frames + 1
              /\ windows[Len(windows)] =
                     <<0, NumRows - tail_points, NumRows>>
              /\ frames[Len(frames)].name =
                     <<strftime(index[NumRows - tail_points + 1]), "-",
                       strftime(index[NumRows])>>
              /\ (NumRows = 20 /\ tail_points = 3 /\ total_frames = 4) =>
                     /\ Len(frames) = 5
                     /\ windows[5] = <<0, 17, 20>>

\* the scenario: 20 rows, tail 3, 4 frames, finished with 5 frames
C9_Witness ==
    /\ pc = "done"
    /\ NumRows = 20
    /\ tail_points = 3
    /\ total_frames = 4
    /\ Len(frames) = 5
    /\ Len(frames[5].data) = 2

----------------------------------------------------------------------------
(* C10 *)

\* C10: for window >= 1 both tables returned by calculate have the columns of
\* the instrument table and as many rows as the time index; the first window -
\* 1 rows of the ratio table are nan and the first window - 1 + 5 rows of the
\* momentum table are nan, in every column.
C10_LeadingNaN ==
    pc = "calculated" =>
        /\ DOMAIN rs_normalized = DOMAIN tickers_df
        /\ DOMAIN rs_momentum = DOMAIN tickers_df
        /\ \A t \in DOMAIN tickers_df :
              /\ Len(rs_normalized[t]) = Len(benchmark_series)
              /\ Len(rs_momentum[t]) = Len(benchmark_series)
              /\ \A r \in 1..Len(benchmark_series) :
                    /\ r <= window - 1 => rs_normalized[t][r] = "nan"
                    /\ r <= window - 1 + 5 => rs_momentum[t][r] = "nan"

\* a result of window 2 on 8 rows whose ratio has a value from row 2 on and
\* whose momentum has a value in the last row
C10_Witness ==
    /\ pc = "calculated"
    /\ window = 2
    /\ Len(benchmark_series) = 8
    /\ rs_normalized["A"][1] = "nan"
    /\ rs_normalized["A"][2] = "num"
    /\ rs_momentum["A"][7] = "nan"
    /\ rs_momentum["A"][8] = "num"

====
